---- MODULE Spec2Model ----
(***************************************************************************)
(* Per-connection HTTP request pipeline of server::net::Connection        *)
(* (core/src/server/net/connection.cpp).                                   *)
(*                                                                         *)
(* Three threads of control are modelled: the caller of Start()/Stop(),   *)
(* the socket listener task (ListenForRequests, "reader") and the         *)
(* response sender task (the lambda of Start(), "writer").  Handler tasks *)
(* started by StartRequestTask and the peer are the environment.          *)
(*                                                                         *)
(* The request queue, the events, the socket and the task primitives are  *)
(* not part of connection.cpp; they are modelled by their contracts: a    *)
(* wait of a task whose cancellation is requested ends with failure.      *)
(***************************************************************************)
EXTENDS Integers, Sequences, FiniteSets, TLC

\* Bounds of the model.
MaxRequests == 2                    \* requests the peer sends over the connection
requests_queue_size_threshold == 1  \* config_.requests_queue_size_threshold

\* Length of a queue on which SetMaxLength was never called.
UnboundedLength == MaxRequests + 1

VARIABLES
  start_pc,        \* position of the caller inside Start()
  rpc,             \* position of the socket listener task
  wpc,             \* position of the response sender task
  pass,            \* which ProcessResponses call of the sender lambda runs (1, 2)
  launched_event,  \* response_sender_launched_event_ is signalled
  assigned_event,  \* response_sender_assigned_event_ is signalled
  sender_task,     \* response_sender_task_: "invalid", "valid", "detached"
  wcancel,         \* cancellation of the response sender task is requested
  rcancel,         \* cancellation of the socket listener task is requested
  is_accepting_requests,
  is_response_chain_valid,
  max_length,      \* request_tasks_ max length
  queue,           \* request_tasks_: ids of the queued items, head first
  buf,             \* requests of the current recv buffer not yet delivered by the parser
  malformed,       \* the current recv buffer ends in bytes the parser rejects
  pending,         \* id of the item the reader holds inside Push (0: none)
  cur,             \* id of the item the writer has popped (0: none)
  reqs,            \* every request NewRequest accepted, by id
  ignored,         \* requests NewRequest ignored as tail garbage
  socket_open,     \* peer_socket_ is open
  has_close_cb,    \* SetCloseCb was called with a callback
  close_cb_calls,  \* invocations of close_cb_
  stats,           \* the Stats counters
  rexit,           \* how ListenForRequests ended
  rlog,            \* the error the reader logged: its code and the log level
  pushed,          \* ids in the order Push accepted them
  processed,       \* ids in the order SendResponse finished them
  flags            \* observations: failed assertions, misuse of a task handle,
                   \* stop() was called, Parse() returned false

vars == <<start_pc, rpc, wpc, pass, launched_event, assigned_event, sender_task,
          wcancel, rcancel, is_accepting_requests, is_response_chain_valid,
          max_length, queue, buf, malformed, pending, cur, reqs, ignored,
          socket_open, has_close_cb, close_cb_calls, stats, rexit, rlog,
          pushed, processed, flags>>

startVars == <<start_pc, launched_event, assigned_event>>
readerVars == <<rpc, is_accepting_requests, max_length, buf, malformed, pending,
                ignored, rexit, rlog, pushed>>
writerVars == <<wpc, pass, is_response_chain_valid, cur, socket_open,
                close_cb_calls, processed>>

Ids == 1..Len(reqs)

\* Requests the peer has sent so far, delivered to the sink or not.
Delivered == Len(reqs) + ignored + Len(buf)

\* All sequences of BOOLEAN of length 0..n: the is_final flags of a recv buffer.
Batches(n) == UNION {[1..k -> BOOLEAN] : k \in 0..n}

NoFlags == [assert_ok_failed |-> FALSE, assert_not_sent_failed |-> FALSE,
            assert_empty_failed |-> FALSE, invalid_cancel |-> FALSE,
            stop_called |-> FALSE, parse_failed |-> FALSE]

\* The connection after Create() and SetCloseCb(): the acceptor registers its
\* callback before it calls Start().
Init ==
  /\ start_pc = "spawn_listener"
  /\ rpc = "unspawned"
  /\ wpc = "unspawned"
  /\ pass = 1
  /\ launched_event = FALSE
  /\ assigned_event = FALSE
  /\ sender_task = "invalid"
  /\ wcancel = FALSE
  /\ rcancel = FALSE
  /\ is_accepting_requests = TRUE
  /\ is_response_chain_valid = TRUE
  /\ max_length = UnboundedLength
  /\ queue = <<>>
  /\ buf = <<>>
  /\ malformed = FALSE
  /\ pending = 0
  /\ cur = 0
  /\ reqs = <<>>
  /\ ignored = 0
  /\ socket_open = TRUE
  /\ has_close_cb = TRUE
  /\ close_cb_calls = 0
  /\ stats = [active_connections |-> 1, connections_created |-> 1,
              connections_closed |-> 0, active_request_count |-> 0,
              requests_processed_count |-> 0]
  /\ rexit = "none"
  /\ rlog = [code |-> "none", level |-> "none"]
  /\ pushed = <<>>
  /\ processed = <<>>
  /\ flags = NoFlags

(***************************************************************************)
(* Task primitives                                                         *)
(***************************************************************************)

RequestCancelSenderSkipped == UNCHANGED <<wcancel, flags>>

\* Task::RequestCancel() on response_sender_task_.
RequestCancelSender ==
  IF sender_task = "valid"
    THEN /\ wcancel' = TRUE
         /\ flags' = flags
    ELSE /\ wcancel' = wcancel
         /\ flags' = [flags EXCEPT !.invalid_cancel = TRUE]

\* A handler task after Task::SyncCancel() or the destructor of its handle.
CancelledTask(h) == IF h = "running" THEN "cancelled" ELSE h

(***************************************************************************)
(* Start() and Stop()                                                      *)
(***************************************************************************)

StartSpawnListener ==
  /\ start_pc = "spawn_listener"
  /\ start_pc' = "spawn_sender"
  /\ rpc' = "spawned"
  /\ UNCHANGED <<wpc, pass, launched_event, assigned_event, sender_task, wcancel,
                 rcancel, is_accepting_requests, is_response_chain_valid,
                 max_length, queue, buf, malformed, pending, cur, reqs, ignored,
                 socket_open, has_close_cb, close_cb_calls, stats, rexit, rlog,
                 pushed, processed, flags>>

StartSpawnSender ==
  /\ start_pc = "spawn_sender"
  /\ start_pc' = "send_launched"
  /\ wpc' = "wait_assigned"
  /\ sender_task' = "valid"
  /\ UNCHANGED <<rpc, pass, launched_event, assigned_event, wcancel,
                 rcancel, is_accepting_requests, is_response_chain_valid,
                 max_length, queue, buf, malformed, pending, cur, reqs, ignored,
                 socket_open, has_close_cb, close_cb_calls, stats, rexit, rlog,
                 pushed, processed, flags>>

StartSendLaunched ==
  /\ start_pc = "send_launched"
  /\ start_pc' = "send_assigned"
  /\ launched_event' = TRUE
  /\ UNCHANGED <<rpc, wpc, pass, assigned_event, sender_task, wcancel,
                 rcancel, is_accepting_requests, is_response_chain_valid,
                 max_length, queue, buf, malformed, pending, cur, reqs, ignored,
                 socket_open, has_close_cb, close_cb_calls, stats, rexit, rlog,
                 pushed, processed, flags>>

StartSendAssigned ==
  /\ start_pc = "send_assigned"
  /\ start_pc' = "returned"
  /\ assigned_event' = TRUE
  /\ UNCHANGED <<rpc, wpc, pass, launched_event, sender_task, wcancel,
                 rcancel, is_accepting_requests, is_response_chain_valid,
                 max_length, queue, buf, malformed, pending, cur, reqs, ignored,
                 socket_open, has_close_cb, close_cb_calls, stats, rexit, rlog,
                 pushed, processed, flags>>

\* Stop(), called by the owner of the connection once Start() has returned.
Stop ==
  /\ start_pc = "returned"
  /\ ~flags.stop_called
  /\ IF sender_task = "valid"
       THEN /\ wcancel' = TRUE
            /\ flags' = [flags EXCEPT !.stop_called = TRUE]
       ELSE /\ wcancel' = wcancel
            /\ flags' = [flags EXCEPT !.stop_called = TRUE, !.invalid_cancel = TRUE]
  /\ reqs' = [i \in Ids |->
                IF wpc = "sending" /\ i = cur
                  THEN [reqs[i] EXCEPT !.stop_in_send = TRUE] ELSE reqs[i]]
  /\ UNCHANGED <<startVars, readerVars, writerVars, sender_task, rcancel, queue,
                 has_close_cb, stats>>

(***************************************************************************)
(* The request queue (request_tasks_)                                      *)
(***************************************************************************)

\* The consumer handle lives until the sender lambda returns.
ConsumerDead == wpc = "done"

\* The producer handle lives until ListenForRequests returns.
ProducerDead == rpc = "done"

QueueHasRoom == Len(queue) < max_length

\* A Push suspended on a full queue ends with false when the pushing task is
\* cancelled: the wait for room is a cancellation point.
PushWaitCancelled == rcancel /\ ~QueueHasRoom

\* Pop finds the queue empty and does not wait: the producer is gone, or the
\* popping task is cancelled.
PopWaitFails == queue = <<>> /\ (ProducerDead \/ wcancel)

(***************************************************************************)
(* The socket listener task: ListenForRequests and NewRequest             *)
(***************************************************************************)

\* The request object and handler task NewRequest creates for a parsed request.
NewItem(final) ==
  [final |-> final, handler |-> "running", is_sent |-> FALSE,
   send_failed |-> FALSE, ise |-> 0, wire |-> "none", joins |-> 0,
   sends |-> 0, dropped |-> FALSE, stop_in_send |-> FALSE,
   eof_running |-> FALSE]

ConfiguredMaxLengthUnset == UnboundedLength

ConfiguredMaxLengthPlusOne == requests_queue_size_threshold + 1

\* The max length the reader sets on the queue before its first Push.
ConfiguredMaxLength == requests_queue_size_threshold

AcceptingAfterFinalIgnored(final) == is_accepting_requests

AcceptingAfterFinalAlwaysStops(final) == FALSE

\* is_accepting_requests_ after NewRequest has looked at IsFinal().
AcceptingAfterFinal(final) == IF final THEN FALSE ELSE is_accepting_requests

AcceptingAfterPushResets(ok) == ok

AcceptingAfterPushIgnored(ok) == is_accepting_requests

\* is_accepting_requests_ after the sink has seen the result of NewRequest.
AcceptingAfterPush(ok) == IF ok THEN is_accepting_requests ELSE FALSE

AcceptingAfterParseIgnored(bad) == is_accepting_requests

\* is_accepting_requests_ after Parse() has returned.
AcceptingAfterParse(bad) == IF bad THEN FALSE ELSE is_accepting_requests

AfterLoopExitKeepsGuard == "guard"

\* Where the reader goes when the while loop ends: send_stopper.Release()
\* disarms the scope guard, so the function returns without running it.
AfterLoopExit == "done"

ReaderLogLevelAlwaysError(code) == "error"

\* The level ListenForRequests logs an IoSystemError at.
ReaderLogLevel(code) == IF code = "connection_reset" THEN "warning" ELSE "error"

\* A non-critical task cancelled before it was scheduled never runs its body.
ReaderNotStarted ==
  /\ rpc = "spawned"
  /\ rcancel
  /\ rpc' = "done"
  /\ rexit' = "not_started"
  /\ UNCHANGED <<startVars, writerVars, sender_task, wcancel, rcancel,
                 is_accepting_requests, max_length, queue, buf, malformed,
                 pending, reqs, ignored, has_close_cb, stats, rlog, pushed, flags>>

\* Entry of ListenForRequests: the scope guard, SetMaxLength, the parser.
ReaderBegin ==
  /\ rpc = "spawned"
  /\ ~rcancel
  /\ rpc' = "loop"
  /\ max_length' = ConfiguredMaxLength
  /\ UNCHANGED <<startVars, writerVars, sender_task, wcancel, rcancel,
                 is_accepting_requests, queue, buf, malformed, pending, reqs,
                 ignored, has_close_cb, stats, rexit, rlog, pushed, flags>>

\* RecvSome returns 0: the peer closed its side.
ReaderRecvZero ==
  /\ rpc = "loop"
  /\ is_accepting_requests
  /\ rpc' = "guard"
  /\ rexit' = "peer_closed"
  /\ reqs' = [i \in Ids |->
                [reqs[i] EXCEPT !.eof_running = (reqs[i].handler = "running")]]
  /\ UNCHANGED <<startVars, writerVars, sender_task, wcancel, rcancel,
                 is_accepting_requests, max_length, queue, buf, malformed,
                 pending, ignored, has_close_cb, stats, rlog, pushed, flags>>

\* RecvSome returns bytes holding the complete requests `batch`, followed by
\* bytes the parser rejects when `bad`.
ReaderRecvData ==
  /\ rpc = "loop"
  /\ is_accepting_requests
  /\ \E batch \in Batches(MaxRequests - Delivered), bad \in BOOLEAN :
       /\ batch # <<>> \/ bad
       /\ buf' = batch
       /\ malformed' = bad
  /\ rpc' = "parse"
  /\ UNCHANGED <<startVars, writerVars, sender_task, wcancel, rcancel,
                 is_accepting_requests, max_length, queue, pending, reqs,
                 ignored, has_close_cb, stats, rexit, rlog, pushed, flags>>

\* RecvSome throws IoCancelled: the wait for data was cancelled.
ReaderRecvCancelled ==
  /\ rpc = "loop"
  /\ is_accepting_requests
  /\ rcancel
  /\ rpc' = "guard"
  /\ rexit' = "cancelled"
  /\ UNCHANGED <<startVars, writerVars, sender_task, wcancel, rcancel,
                 is_accepting_requests, max_length, queue, buf, malformed,
                 pending, reqs, ignored, has_close_cb, stats, rlog, pushed, flags>>

\* RecvSome throws IoSystemError.
ReaderRecvIoError ==
  /\ rpc = "loop"
  /\ is_accepting_requests
  /\ \E code \in {"connection_reset", "broken_pipe", "other"} :
       rlog' = [code |-> code, level |-> ReaderLogLevel(code)]
  /\ rexit' = "io_error"
  /\ rpc' = "guard"
  /\ UNCHANGED <<startVars, writerVars, sender_task, wcancel, rcancel,
                 is_accepting_requests, max_length, queue, buf, malformed,
                 pending, reqs, ignored, has_close_cb, stats, pushed, flags>>

\* Any other std::exception inside the try block.
ReaderException ==
  /\ rpc = "loop"
  /\ is_accepting_requests
  /\ rlog' = [code |-> "none", level |-> "error"]
  /\ rexit' = "exception"
  /\ rpc' = "guard"
  /\ UNCHANGED <<startVars, writerVars, sender_task, wcancel, rcancel,
                 is_accepting_requests, max_length, queue, buf, malformed,
                 pending, reqs, ignored, has_close_cb, stats, pushed, flags>>

\* The parser delivers the next request of the buffer to the sink: NewRequest
\* up to the return of Push or its suspension on a full queue.
ReaderNewRequest ==
  /\ rpc = "parse"
  /\ buf # <<>>
  /\ buf' = Tail(buf)
  /\ IF ~is_accepting_requests
       THEN /\ ignored' = ignored + 1
            /\ UNCHANGED <<rpc, is_accepting_requests, queue, pending, reqs,
                           stats, pushed>>
       ELSE /\ is_accepting_requests' = AcceptingAfterFinal(Head(buf))
            /\ stats' = [stats EXCEPT !.active_request_count = @ + 1]
            /\ reqs' = Append(reqs, NewItem(Head(buf)))
            /\ ignored' = ignored
            /\ IF QueueHasRoom
                 THEN /\ queue' = Append(queue, Len(reqs) + 1)
                      /\ pushed' = Append(pushed, Len(reqs) + 1)
                      /\ UNCHANGED <<rpc, pending>>
                 ELSE /\ pending' = Len(reqs) + 1
                      /\ rpc' = "push"
                      /\ UNCHANGED <<queue, pushed>>
  /\ UNCHANGED <<startVars, writerVars, sender_task, wcancel, rcancel,
                 max_length, malformed, has_close_cb, rexit, rlog, flags>>

\* The writer made room: the suspended Push accepts the item and returns true.
ReaderPushDone ==
  /\ rpc = "push"
  /\ QueueHasRoom
  /\ queue' = Append(queue, pending)
  /\ pushed' = Append(pushed, pending)
  /\ pending' = 0
  /\ is_accepting_requests' = AcceptingAfterPush(TRUE)
  /\ rpc' = "parse"
  /\ UNCHANGED <<startVars, writerVars, sender_task, wcancel, rcancel,
                 max_length, buf, malformed, reqs, ignored, has_close_cb,
                 stats, rexit, rlog, flags>>

\* The suspended Push is cancelled: it returns false, the item it was given is
\* destroyed with its handler task, and the sink stops accepting.
ReaderPushCancelled ==
  /\ rpc = "push"
  /\ PushWaitCancelled
  /\ reqs' = [reqs EXCEPT ![pending].dropped = TRUE,
                          ![pending].handler = CancelledTask(@)]
  /\ pending' = 0
  /\ is_accepting_requests' = AcceptingAfterPush(FALSE)
  /\ rpc' = "parse"
  /\ UNCHANGED <<startVars, writerVars, sender_task, wcancel, rcancel,
                 max_length, queue, buf, malformed, ignored, has_close_cb,
                 stats, rexit, rlog, pushed, flags>>

\* Parse() returns: false when the buffer ended in malformed bytes.
ReaderParseDone ==
  /\ rpc = "parse"
  /\ buf = <<>>
  /\ is_accepting_requests' = AcceptingAfterParse(malformed)
  /\ flags' = [flags EXCEPT !.parse_failed = @ \/ malformed]
  /\ malformed' = FALSE
  /\ rpc' = "loop"
  /\ UNCHANGED <<startVars, writerVars, sender_task, wcancel, rcancel,
                 max_length, queue, buf, pending, reqs, ignored, has_close_cb,
                 stats, rexit, rlog, pushed>>

\* The loop ends because is_accepting_requests_ is false: the guard is released.
ReaderGraceful ==
  /\ rpc = "loop"
  /\ ~is_accepting_requests
  /\ rpc' = AfterLoopExit
  /\ rexit' = "graceful"
  /\ UNCHANGED <<startVars, writerVars, sender_task, wcancel, rcancel,
                 is_accepting_requests, max_length, queue, buf, malformed,
                 pending, reqs, ignored, has_close_cb, stats, rlog, pushed, flags>>

LaunchedSeenNoWait == TRUE

\* response_sender_launched_event_.WaitForEvent() of the guard returns true.
LaunchedSeen == launched_event

\* The scope guard send_stopper on an exit by return or exception.
ReaderGuard ==
  /\ rpc = "guard"
  /\ LaunchedSeen \/ rcancel
  /\ IF LaunchedSeen
       THEN RequestCancelSender
       ELSE UNCHANGED <<wcancel, flags>>
  /\ rpc' = "done"
  /\ UNCHANGED <<startVars, writerVars, sender_task, rcancel,
                 is_accepting_requests, max_length, queue, buf, malformed,
                 pending, reqs, ignored, has_close_cb, stats, rexit, rlog, pushed>>

(***************************************************************************)
(* Handler tasks (environment)                                             *)
(***************************************************************************)

\* A running handler task ends: normally, with an exception, or cancelled by
\* the task processor.
HandlerFinish ==
  /\ \E i \in Ids, outcome \in {"ok", "crashed", "cancelled"} :
       /\ reqs[i].handler = "running"
       /\ reqs' = [reqs EXCEPT ![i].handler = outcome]
  /\ UNCHANGED <<startVars, readerVars, writerVars, sender_task, wcancel,
                 rcancel, queue, has_close_cb, stats, flags>>

(***************************************************************************)
(* The response sender task: the lambda of Start(), ProcessResponses,     *)
(* HandleQueueItem, SendResponse, Shutdown                                 *)
(***************************************************************************)

AfterProcessResponsesOnce(p) == "shutdown"

AfterProcessResponsesRetry(p) == "pop"

\* Where the sender lambda goes when a ProcessResponses call returns.
AfterProcessResponses(p) == IF p = 1 THEN "sync_cancel" ELSE "shutdown"

ChainAfterJoinIgnoresInterrupt(result) ==
  IF result = "cancelled" THEN FALSE ELSE is_response_chain_valid

ChainAfterJoinIgnoresCancelled(result) ==
  IF result = "interrupted" THEN FALSE ELSE is_response_chain_valid

ChainAfterJoinCrashBreaks(result) ==
  IF result \in {"cancelled", "interrupted", "crashed"}
    THEN FALSE ELSE is_response_chain_valid

\* is_response_chain_valid_ after HandleQueueItem saw the join end as `result`.
ChainAfterJoin(result) ==
  IF result \in {"cancelled", "interrupted"} THEN FALSE ELSE is_response_chain_valid

\* Calls of MarkAsInternalServerError() HandleQueueItem makes for `result`.
MarksForJoin(result) == IF result = "crashed" THEN 1 ELSE 0

TakesSendPathIgnoresChain == socket_open

\* Whether SendResponse calls response.SendResponse(peer_socket_).
TakesSendPath == is_response_chain_valid /\ socket_open

AfterHandleQueueItemSkipsCancelled(cancelled) == IF cancelled THEN "pop" ELSE "send"

\* Where ProcessResponses goes when HandleQueueItem returns, after the
\* cancellation branch or after the join.
AfterHandleQueueItem(cancelled) == "send"

SendCancellableNoBlocker == TRUE

\* Whether a cancellation request can interrupt response.SendResponse:
\* ProcessResponses holds a TaskCancellationBlocker around SendResponse.
SendCancellable == FALSE

\* Whether SendResponse calls SetSendFailed after the send ended as `outcome`.
MarksSendFailed(outcome) == outcome \in {"exception", "interrupted"}

\* What reached the socket when the send ended as `outcome`.
WireAfterSend(outcome) ==
  CASE outcome = "ok" -> "full"
    [] outcome = "interrupted" -> "truncated"
    [] OTHER -> "partial"

StatsAfterSendNoProcessed ==
  [stats EXCEPT !.active_request_count = @ - 1]

StatsAfterSendTwice ==
  [stats EXCEPT !.active_request_count = @ - 2,
                !.requests_processed_count = @ + 1]

\* The statistics after SendResponse.
StatsAfterSend ==
  [stats EXCEPT !.active_request_count = @ - 1,
                !.requests_processed_count = @ + 1]

StatsAfterShutdownKeepsActive ==
  [stats EXCEPT !.connections_closed = @ + 1]

\* The statistics after Shutdown.
StatsAfterShutdown ==
  [stats EXCEPT !.active_connections = @ - 1,
                !.connections_closed = @ + 1]

CancelsListenerNever(p) == FALSE

\* Whether the sender lambda cancels the socket listener task when the
\* ProcessResponses call number p has returned.
CancelsListener(p) == p = 1

ListenerJoinedNoWait == TRUE

ListenerJoinedWhenCancelled == rcancel

\* socket_listener.SyncCancel() returns: the socket listener task has finished.
ListenerJoined == rpc = "done"

AfterSendResponseRepeats(item) == [wpc |-> "send", cur |-> item]

\* Where ProcessResponses goes when SendResponse has returned and what it then
\* holds: item.reset() and the next Pop.
AfterSendResponse(item) == [wpc |-> "pop", cur |-> 0]

ChainAfterSendErrorBreaks(outcome) ==
  IF outcome = "ok" THEN is_response_chain_valid ELSE FALSE

\* is_response_chain_valid_ after response.SendResponse ended as `outcome`:
\* neither catch block of SendResponse touches it.
ChainAfterSend(outcome) == is_response_chain_valid

\* WaitForEvent on response_sender_assigned_event_ and UASSERT(ok).
WriterWaitAssigned ==
  /\ wpc = "wait_assigned"
  /\ assigned_event \/ wcancel
  /\ flags' = [flags EXCEPT !.assert_ok_failed = @ \/ ~assigned_event]
  /\ wpc' = "pop"
  /\ UNCHANGED <<startVars, readerVars, pass, is_response_chain_valid, cur,
                 socket_open, close_cb_calls, processed, sender_task, wcancel,
                 rcancel, queue, reqs, has_close_cb, stats>>

\* consumer.Pop returns true with the head of the queue.
WriterPop ==
  /\ wpc = "pop"
  /\ queue # <<>>
  /\ cur' = Head(queue)
  /\ queue' = Tail(queue)
  /\ wpc' = "handle"
  /\ UNCHANGED <<startVars, readerVars, pass, is_response_chain_valid,
                 socket_open, close_cb_calls, processed, sender_task, wcancel,
                 rcancel, reqs, has_close_cb, stats, flags>>

\* consumer.Pop returns false on an empty queue: the producer is gone or the
\* wait was cancelled.  After the first ProcessResponses the lambda calls
\* socket_listener.SyncCancel(), after the second one Shutdown().
WriterPopFails ==
  /\ wpc = "pop"
  /\ PopWaitFails
  /\ wpc' = AfterProcessResponses(pass)
  /\ rcancel' = (rcancel \/ CancelsListener(pass))
  /\ UNCHANGED <<startVars, readerVars, pass, is_response_chain_valid, cur,
                 socket_open, close_cb_calls, processed, sender_task, wcancel,
                 queue, reqs, has_close_cb, stats, flags>>

\* SyncCancel returns once the socket listener task has finished.
WriterSyncCancelDone ==
  /\ wpc = "sync_cancel"
  /\ ListenerJoined
  /\ wpc' = "pop"
  /\ pass' = 2
  /\ UNCHANGED <<startVars, readerVars, is_response_chain_valid, cur,
                 socket_open, close_cb_calls, processed, sender_task, wcancel,
                 rcancel, queue, reqs, has_close_cb, stats, flags>>

\* HandleQueueItem with IsCancelRequested(): SyncCancel of the handler task.
WriterHandleCancelled ==
  /\ wpc = "handle"
  /\ wcancel
  /\ reqs' = [reqs EXCEPT ![cur].handler = CancelledTask(@),
                          ![cur].joins = @ + 1]
  /\ is_response_chain_valid' = ChainAfterJoin("cancelled")
  /\ wpc' = AfterHandleQueueItem(TRUE)
  /\ UNCHANGED <<startVars, readerVars, pass, cur, socket_open, close_cb_calls,
                 processed, sender_task, wcancel, rcancel, queue, has_close_cb,
                 stats, flags>>

\* HandleQueueItem without a cancellation request: it goes on to Get().
WriterHandleGet ==
  /\ wpc = "handle"
  /\ ~wcancel
  /\ wpc' = "get"
  /\ UNCHANGED <<startVars, readerVars, pass, is_response_chain_valid, cur,
                 socket_open, close_cb_calls, processed, sender_task, wcancel,
                 rcancel, queue, reqs, has_close_cb, stats, flags>>

\* request_task.Get() returns or rethrows what the finished handler left.
WriterGetResult ==
  /\ wpc = "get"
  /\ reqs[cur].handler # "running"
  /\ reqs' = [reqs EXCEPT ![cur].joins = @ + 1,
                          ![cur].ise = @ + MarksForJoin(reqs[cur].handler)]
  /\ is_response_chain_valid' = ChainAfterJoin(reqs[cur].handler)
  /\ wpc' = AfterHandleQueueItem(FALSE)
  /\ UNCHANGED <<startVars, readerVars, pass, cur, socket_open, close_cb_calls,
                 processed, sender_task, wcancel, rcancel, queue, has_close_cb,
                 stats, flags>>

\* request_task.Get() throws WaitInterruptedException: the writer was cancelled
\* while the handler was running; the task handle is destroyed on return.
WriterGetInterrupted ==
  /\ wpc = "get"
  /\ reqs[cur].handler = "running"
  /\ wcancel
  /\ reqs' = [reqs EXCEPT ![cur].joins = @ + 1,
                          ![cur].handler = CancelledTask(@)]
  /\ is_response_chain_valid' = ChainAfterJoin("interrupted")
  /\ wpc' = AfterHandleQueueItem(FALSE)
  /\ UNCHANGED <<startVars, readerVars, pass, cur, socket_open, close_cb_calls,
                 processed, sender_task, wcancel, rcancel, queue, has_close_cb,
                 stats, flags>>

\* SendResponse up to the call of response.SendResponse, or all of it when the
\* chain is broken or the socket is gone.
WriterSendBegin ==
  /\ wpc = "send"
  /\ flags' = [flags EXCEPT !.assert_not_sent_failed = @ \/ reqs[cur].is_sent]
  /\ IF TakesSendPath
       THEN /\ wpc' = "sending"
            /\ UNCHANGED <<cur, reqs, stats, processed>>
       ELSE /\ reqs' = [reqs EXCEPT ![cur].send_failed = TRUE,
                                    ![cur].sends = @ + 1]
            /\ stats' = StatsAfterSend
            /\ processed' = Append(processed, cur)
            /\ cur' = AfterSendResponse(cur).cur
            /\ wpc' = AfterSendResponse(cur).wpc
  /\ UNCHANGED <<startVars, readerVars, pass, is_response_chain_valid,
                 socket_open, close_cb_calls, sender_task, wcancel, rcancel,
                 queue, has_close_cb>>

\* response.SendResponse ends: sent, IoSystemError (broken_pipe or another
\* code), another exception; then the rest of SendResponse.
WriterSendEnd ==
  /\ wpc = "sending"
  /\ \E outcome \in {"ok", "broken_pipe", "io_other", "exception", "interrupted"} :
       /\ outcome = "interrupted" => SendCancellable /\ wcancel
       /\ reqs' = [reqs EXCEPT ![cur].is_sent = (outcome = "ok"),
                               ![cur].send_failed = MarksSendFailed(outcome),
                               ![cur].wire = WireAfterSend(outcome),
                               ![cur].sends = @ + 1]
       /\ is_response_chain_valid' = ChainAfterSend(outcome)
  /\ stats' = StatsAfterSend
  /\ processed' = Append(processed, cur)
  /\ cur' = AfterSendResponse(cur).cur
  /\ wpc' = AfterSendResponse(cur).wpc
  /\ UNCHANGED <<startVars, readerVars, pass, socket_open, close_cb_calls,
                 sender_task, wcancel, rcancel, queue, has_close_cb, flags>>

\* Shutdown(): close, statistics, close_cb_, UASSERT(IsRequestTasksEmpty()),
\* Detach.
WriterShutdown ==
  /\ wpc = "shutdown"
  /\ socket_open' = FALSE
  /\ stats' = StatsAfterShutdown
  /\ close_cb_calls' = IF has_close_cb THEN close_cb_calls + 1 ELSE close_cb_calls
  /\ flags' = [flags EXCEPT !.assert_empty_failed = @ \/ queue # <<>>]
  /\ sender_task' = "detached"
  /\ wpc' = "done"
  /\ UNCHANGED <<startVars, readerVars, pass, is_response_chain_valid, cur,
                 processed, wcancel, rcancel, queue, reqs, has_close_cb>>

Next ==
  \/ StartSpawnListener \/ StartSpawnSender \/ StartSendLaunched
  \/ StartSendAssigned \/ Stop
  \/ ReaderNotStarted \/ ReaderBegin \/ ReaderRecvZero \/ ReaderRecvData
  \/ ReaderRecvCancelled \/ ReaderRecvIoError \/ ReaderException
  \/ ReaderNewRequest \/ ReaderPushDone \/ ReaderPushCancelled
  \/ ReaderParseDone \/ ReaderGraceful \/ ReaderGuard
  \/ HandlerFinish
  \/ WriterWaitAssigned \/ WriterPop \/ WriterPopFails \/ WriterSyncCancelDone
  \/ WriterHandleCancelled \/ WriterHandleGet \/ WriterGetResult
  \/ WriterGetInterrupted \/ WriterSendBegin \/ WriterSendEnd \/ WriterShutdown

Spec == Init /\ [][Next]_vars

\* The steps each task takes by itself once it is scheduled.  What the peer,
\* the handlers and the caller of Stop() do is left to them.
StartStep ==
  StartSpawnListener \/ StartSpawnSender \/ StartSendLaunched \/ StartSendAssigned

ReaderStep ==
  \/ ReaderNotStarted \/ ReaderBegin \/ ReaderRecvCancelled \/ ReaderNewRequest
  \/ ReaderPushDone \/ ReaderPushCancelled \/ ReaderParseDone \/ ReaderGraceful
  \/ ReaderGuard

WriterStep ==
  \/ WriterWaitAssigned \/ WriterPop \/ WriterPopFails \/ WriterSyncCancelDone
  \/ WriterHandleCancelled \/ WriterHandleGet \/ WriterGetResult
  \/ WriterGetInterrupted \/ WriterSendBegin \/ WriterSendEnd \/ WriterShutdown

\* The task processor schedules every task that can run; a send ends.
FairSpec ==
  /\ Spec
  /\ WF_vars(StartStep)
  /\ WF_vars(ReaderStep)
  /\ WF_vars(WriterStep)

\* FairSpec with handler tasks that all end.
FairHandlersSpec ==
  /\ FairSpec
  /\ WF_vars(HandlerFinish)

(***************************************************************************)
(* Properties                                                              *)
(***************************************************************************)

\* Requests the writer has popped and brought through SendResponse.
Processed == {processed[k] : k \in 1..Len(processed)}

\* The writer holds a popped item whose SendResponse has not finished.
InFlight == IF cur = 0 THEN 0 ELSE 1

C2_ExactlyOneOutcome ==
  \A i \in Ids : reqs[i].sends > 0 => (reqs[i].is_sent # reqs[i].send_failed)

\* C3: when Shutdown has completed, active_request_count is back at the value
\* it had before the connection was created.
C3_ActiveCountRestored ==
  wpc = "done" => stats.active_request_count = 0

\* C4: when Shutdown runs, every request NewRequest started a handler for has
\* been popped by the writer and has its response sent or marked send-failed.
C4_NoRequestDropped ==
  wpc \in {"shutdown", "done"} =>
    \A i \in Ids : i \in Processed /\ (reqs[i].is_sent \/ reqs[i].send_failed)

\* C5: in every state after Shutdown the socket is closed, the queue is empty
\* (UASSERT(IsRequestTasksEmpty()) held) and close_cb_ ran at most once.
C5_AfterShutdown ==
  wpc = "done" =>
    /\ ~socket_open
    /\ queue = <<>>
    /\ ~flags.assert_empty_failed
    /\ close_cb_calls <= 1

C5_Witness ==
  /\ wpc = "done"
  /\ close_cb_calls = 1
  /\ pass = 2
  /\ Len(processed) >= 1
  /\ rexit = "cancelled"

\* The request the writer processed right after request i, or 0.
NextProcessed(i) ==
  IF \E k \in 1..(Len(processed) - 1) : processed[k] = i
    THEN processed[(CHOOSE k \in 1..(Len(processed) - 1) : processed[k] = i) + 1]
    ELSE 0

\* C6: no response is ever truncated by a cancellation; a send during which
\* stop() was called ends as it would have without it (the whole response on
\* the wire exactly when it is marked sent), and the request processed next
\* is either sent whole or marked send-failed with nothing written.
C6_CancellationAtomic ==
  \A i \in Ids :
    /\ reqs[i].wire # "truncated"
    /\ reqs[i].stop_in_send /\ reqs[i].sends > 0 =>
         /\ reqs[i].wire \in {"full", "partial"}
         /\ reqs[i].is_sent <=> reqs[i].wire = "full"
         /\ NextProcessed(i) # 0 =>
              \/ reqs[NextProcessed(i)].wire = "full" /\ reqs[NextProcessed(i)].is_sent
              \/ reqs[NextProcessed(i)].wire = "none" /\ reqs[NextProcessed(i)].send_failed

C6_Witness ==
  \E i \in Ids :
    /\ reqs[i].stop_in_send
    /\ reqs[i].is_sent
    /\ reqs[i].wire = "full"
    /\ NextProcessed(i) # 0
    /\ reqs[NextProcessed(i)].send_failed
    /\ reqs[NextProcessed(i)].wire = "none"

\* The step in which HandleQueueItem catches the exception of a crashed handler.
CrashJoin ==
  /\ wpc = "get"
  /\ wpc' = "send"
  /\ reqs[cur].handler = "crashed"

\* C7: joining a crashed handler marks the request as internal server error
\* once, leaves is_response_chain_valid as it was and goes on to SendResponse;
\* no request is marked twice; with the chain still valid the response of a
\* crashed request, and of every finished request after it, went to the
\* socket; and the writer ends only once it has processed every pushed request.
C7_CrashIsolated ==
  /\ [][CrashJoin =>
          /\ reqs'[cur].ise = reqs[cur].ise + 1
          /\ is_response_chain_valid' = is_response_chain_valid
          /\ cur' = cur]_vars
  /\ [](\A i \in Ids :
          /\ reqs[i].ise <= 1
          /\ reqs[i].ise = 1 => reqs[i].handler = "crashed"
          /\ (reqs[i].sends > 0 /\ is_response_chain_valid) => reqs[i].wire # "none")
  /\ [](wpc \in {"shutdown", "done"} => Len(processed) = Len(pushed))

C7_Witness ==
  \E i, j \in Ids :
    /\ i < j
    /\ reqs[i].ise = 1
    /\ reqs[i].is_sent
    /\ reqs[j].handler = "ok"
    /\ reqs[j].is_sent

\* The sink has accepted a request with is_final set.
FinalAccepted == \E i \in Ids : reqs[i].final

\* C8: once a final request is accepted NewRequest accepts nothing more: no
\* handler task is started, active_request_count is not incremented, nothing
\* new is handed to Push and no RecvSome follows; the final request itself is
\* handed to Push (it is in the queue or Push holds it) in the step that
\* accepts it.
C8_NothingAfterFinal ==
  /\ [][FinalAccepted =>
          /\ Len(reqs') = Len(reqs)
          /\ stats'.active_request_count <= stats.active_request_count
          /\ Len(pushed') + (IF pending' = 0 THEN 0 ELSE 1)
               <= Len(pushed) + (IF pending = 0 THEN 0 ELSE 1)
          /\ ~(rpc = "loop" /\ rpc' = "parse")]_vars
  /\ [][Len(reqs') > Len(reqs) =>
          /\ Len(reqs') = Len(reqs) + 1
          /\ stats'.active_request_count = stats.active_request_count + 1
          /\ reqs'[Len(reqs')].handler = "running"
          /\ \/ pending' = Len(reqs')
             \/ Len(queue') > 0 /\ queue'[Len(queue')] = Len(reqs')]_vars
  /\ [](\A i \in Ids : reqs[i].final => i = Len(reqs))

C8_Witness ==
  /\ FinalAccepted
  /\ ignored > 0
  /\ reqs[Len(reqs)].is_sent

\* C9: the queue never holds more than requests_queue_size_threshold items;
\* the reader leaves a suspended Push only when the queue has room again (the
\* writer popped) or when the Push failed, after which it accepts nothing; and
\* no RecvSome returns while Push holds an item.
C9_Backpressure ==
  /\ [](Len(queue) <= requests_queue_size_threshold)
  /\ [](pending # 0 <=> rpc = "push")
  /\ [][rpc = "push" /\ rpc' # "push" =>
          \/ Len(queue) < requests_queue_size_threshold /\ Len(queue') = Len(queue) + 1
          \/ ~is_accepting_requests' /\ reqs'[pending].dropped]_vars
  /\ [][rpc = "push" => buf' = buf /\ rexit' = rexit]_vars

C9_Witness ==
  /\ rpc = "push"
  /\ Len(queue) = requests_queue_size_threshold
  /\ reqs[Head(queue)].handler = "running"
  /\ start_pc = "returned"
  /\ ~wcancel
  /\ ~rcancel

\* C10 as stated: a request whose handler was running when RecvSome returned 0
\* ends with its response marked send-failed and never written, and with
\* SendResponse run once for it.
C10_EofCancelsRunning ==
  wpc = "done" =>
    \A i \in Ids :
      reqs[i].eof_running =>
        /\ reqs[i].send_failed
        /\ ~reqs[i].is_sent
        /\ reqs[i].wire = "none"
        /\ reqs[i].sends = 1

\* C10, amended: after a 0-byte RecvSome the reader exits and requests the
\* cancellation of the writer; a request whose handler was running then and
\* did not complete before the writer joined it has its handler cancelled, its
\* response marked send-failed with nothing written and SendResponse run once
\* for it (requests_processed_count counts every finished SendResponse once);
\* and the connection is shut down.
C10_EofCancelsUnfinished ==
  /\ [](rexit = "peer_closed" /\ rpc = "done" => wcancel)
  /\ [](stats.requests_processed_count = Len(processed))
  /\ [](\A i \in Ids :
          (reqs[i].eof_running /\ reqs[i].handler = "cancelled" /\ i \in Processed) =>
            /\ reqs[i].send_failed
            /\ ~reqs[i].is_sent
            /\ reqs[i].wire = "none"
            /\ reqs[i].sends = 1)
  /\ (rexit = "peer_closed") ~> (wpc = "done" /\ ~socket_open)

C10_Witness ==
  /\ wpc = "done"
  /\ rexit = "peer_closed"
  /\ \E i \in Ids :
       /\ reqs[i].eof_running
       /\ reqs[i].handler = "cancelled"
       /\ reqs[i].send_failed
       /\ reqs[i].joins = 1

\* No stop(), no cancelled handler task and no failed send so far.
Undisturbed ==
  /\ ~flags.stop_called
  /\ \A i \in Ids : reqs[i].handler # "cancelled"
  /\ \A i \in Ids : reqs[i].wire # "partial"

\* C11: when the reader left its loop after a final request, and there was no
\* stop(), no handler cancellation and no send failure, then at the end of
\* Shutdown every request NewRequest accepted was pushed and processed in
\* order, each response is on the socket whole and marked sent, none is marked
\* send-failed, and close_cb_ ran exactly once; a response is only ever
\* written while the socket is open.
C11_FinalFlushes ==
  /\ []((wpc = "done" /\ rexit = "graceful" /\ FinalAccepted /\ Undisturbed) =>
          /\ Len(pushed) = Len(reqs)
          /\ \A k \in 1..Len(pushed) : pushed[k] = k
          /\ processed = pushed
          /\ \A i \in Ids :
               reqs[i].is_sent /\ ~reqs[i].send_failed /\ reqs[i].wire = "full"
          /\ close_cb_calls = 1)
  /\ [][\A i \in Ids :
          reqs'[i].wire # reqs[i].wire => socket_open /\ socket_open']_vars

C11_Witness ==
  /\ wpc = "done"
  /\ rexit = "graceful"
  /\ Undisturbed
  /\ Len(reqs) = 2
  /\ reqs[2].final
  /\ \A i \in Ids : reqs[i].is_sent
  /\ close_cb_calls = 1

\* C12: once Parse() has returned false the reader accepts and pushes nothing
\* more and no RecvSome returns: it can only leave its loop with the guard
\* released; and without stop(), handler cancellation and send failure every
\* request pushed before that has its response on the socket whole and marked
\* sent when Shutdown ends, the socket being closed by Shutdown only.
C12_MalformedStopsReader ==
  /\ [][flags.parse_failed =>
          /\ Len(reqs') = Len(reqs)
          /\ pushed' = pushed
          /\ pending' = 0
          /\ ~(rpc' = "parse")
          /\ rexit' \in {rexit, "graceful"}]_vars
  /\ []((wpc = "done" /\ flags.parse_failed /\ Undisturbed) =>
          /\ processed = pushed
          /\ Len(pushed) = Len(reqs)
          /\ \A k \in 1..Len(pushed) :
               /\ reqs[pushed[k]].is_sent
               /\ ~reqs[pushed[k]].send_failed
               /\ reqs[pushed[k]].wire = "full")
  /\ [](~socket_open => wpc = "done")

C12_Witness ==
  /\ wpc = "done"
  /\ flags.parse_failed
  /\ ~FinalAccepted
  /\ Undisturbed
  /\ Len(pushed) = 2
  /\ \A i \in Ids : reqs[i].is_sent

\* C13: a cancellation request of the writer is never withdrawn and a broken
\* response chain is never repaired; with the request pending, HandleQueueItem
\* leaves its entry only through the cancellation branch: the handler task is
\* cancelled if it still runs and keeps its state if it has ended, Get() is
\* not called (no result is taken, no internal-server-error mark is made), the
\* chain is broken and SendResponse follows; and SendResponse on a broken
\* chain marks the response send-failed, writes nothing and runs once.
C13_CancelledPopsFail ==
  /\ [][wcancel => wcancel']_vars
  /\ [][~is_response_chain_valid => ~is_response_chain_valid']_vars
  /\ [][(wcancel /\ wpc = "handle" /\ wpc' # wpc) =>
          /\ wpc' = "send"
          /\ cur' = cur
          /\ ~is_response_chain_valid'
          /\ reqs'[cur].handler =
               (IF reqs[cur].handler = "running" THEN "cancelled" ELSE reqs[cur].handler)
          /\ reqs'[cur].joins = 1
          /\ reqs'[cur].ise = 0]_vars
  /\ [][(wpc = "send" /\ ~is_response_chain_valid /\ wpc' # wpc) =>
          /\ wpc' = "pop"
          /\ reqs'[cur].send_failed
          /\ ~reqs'[cur].is_sent
          /\ reqs'[cur].wire = "none"
          /\ reqs'[cur].sends = 1]_vars

C13_Witness ==
  /\ flags.stop_called
  /\ processed = <<1>>
  /\ reqs[1].handler = "ok"
  /\ reqs[1].joins = 1
  /\ reqs[1].send_failed
  /\ reqs[1].wire = "none"
  /\ ~is_response_chain_valid

\* The connection has been shut down with nothing left behind: both tasks have
\* ended, the reader was cancelled, every pushed request went through
\* SendResponse, the socket is closed and close_cb_ ran.
ShutDownDrained ==
  /\ wpc = "done"
  /\ rpc = "done"
  /\ rcancel
  /\ queue = <<>>
  /\ cur = 0
  /\ pending = 0
  /\ Len(processed) = Len(pushed)
  /\ ~socket_open
  /\ close_cb_calls = 1

\* C14: after stop() on a started connection the reader is cancelled and
\* ends, the writer drains the queue and the connection reaches the end of
\* Shutdown, wherever the two tasks were when stop() was called.
C14_StopShutsDown == flags.stop_called ~> ShutDownDrained

C14_Witness ==
  /\ flags.stop_called
  /\ ShutDownDrained
  /\ rexit = "cancelled"
  /\ \E i \in Ids : reqs[i].stop_in_send
  /\ \E i \in Ids : reqs[i].handler = "cancelled" /\ reqs[i].send_failed

\* C15: Shutdown runs at most once and nothing else touches the connection
\* counters: connections_closed is 1 and active_connections is back at its
\* value from before the constructor exactly when Shutdown has run, the writer
\* never leaves its final state, and once the connection has shut down
\* connections_created equals connections_closed.
C15_ShutdownOnce ==
  /\ [](stats.connections_created = 1)
  /\ [](stats.connections_closed = (IF wpc = "done" THEN 1 ELSE 0))
  /\ [](stats.active_connections = (IF wpc = "done" THEN 0 ELSE 1))
  /\ [](wpc = "done" => stats.connections_created = stats.connections_closed)
  /\ [][wpc = "done" => wpc' = "done"]_vars
  /\ [][stats'.connections_closed # stats.connections_closed =>
          /\ wpc = "shutdown"
          /\ stats'.connections_closed = stats.connections_closed + 1
          /\ stats'.active_connections = stats.active_connections - 1]_vars

C15_Witness ==
  /\ wpc = "done"
  /\ stats.connections_closed = 1
  /\ stats.active_connections = 0
  /\ flags.stop_called
  /\ flags.invalid_cancel

\* C16: every handler task is joined (awaited by Get() or cancelled by
\* SyncCancel) at most once, by HandleQueueItem, exactly once when its request
\* has been through SendResponse, and the reader never destroys the handle of
\* a started handler task.
C16_OnlyWriterJoins ==
  \A i \in Ids :
    /\ reqs[i].joins <= 1
    /\ i \in Processed => reqs[i].joins = 1
    /\ ~reqs[i].dropped

\* C17: in every state active_request_count is at least the number of
\* outstanding requests: those in the queue plus the one the writer has popped
\* and not yet brought through SendResponse.
C17_CountCoversOutstanding ==
  stats.active_request_count >= Len(queue) + InFlight

C17_Witness ==
  /\ Len(queue) = 1
  /\ wpc = "sending"
  /\ stats.active_request_count = 2

\* C18 as stated: however ListenForRequests ended after it had begun, the
\* cancellation of the writer has been requested when it is over.
C18_GuardOnEveryExit ==
  (rpc = "done" /\ rexit \in {"peer_closed", "graceful", "cancelled",
                               "io_error", "exception"}) => wcancel

\* C18, amended: when ListenForRequests ends by the return after a 0-byte
\* RecvSome or by an exception (cancelled RecvSome, I/O error, any other
\* exception) its scope guard requests the cancellation of the writer, on a
\* valid task handle and after response_sender_launched_event_; when the loop
\* ends because is_accepting_requests_ is false (malformed input, final
\* request, failed Push) the guard is released and the reader requests
\* nothing: without stop() the writer is then not cancelled.
C18_GuardOnAbnormalExit ==
  /\ []((rpc = "done" /\ rexit \in {"peer_closed", "cancelled", "io_error",
                                    "exception"}) => wcancel)
  /\ [][(rpc = "guard" /\ rpc' = "done") =>
          /\ wcancel'
          /\ launched_event
          /\ sender_task = "valid"]_vars
  /\ [][(rexit = "none" /\ rexit' = "graceful") =>
          /\ rpc' = "done"
          /\ wcancel' = wcancel]_vars
  /\ []((rpc = "done" /\ rexit = "graceful" /\ ~flags.stop_called) => ~wcancel)

C18_Witness ==
  /\ rpc = "done"
  /\ rexit = "io_error"
  /\ wcancel
  /\ ~flags.stop_called
  /\ Len(queue) = 1

\* C19: whenever the writer is at Shutdown or past it the reader task has
\* ended, the queue is empty and neither task holds an item; hence in the step
\* that closes the socket and in every later step nothing is pushed, the
\* reader does not move and no RecvSome delivers bytes.
C19_ShutdownAfterReader ==
  /\ [](wpc \in {"shutdown", "done"} =>
          /\ rpc = "done"
          /\ queue = <<>>
          /\ pending = 0
          /\ cur = 0)
  /\ [][~socket_open' =>
          /\ pushed' = pushed
          /\ queue' = queue
          /\ rpc' = rpc
          /\ buf' = buf]_vars

C19_Witness ==
  /\ wpc = "shutdown"
  /\ pass = 2
  /\ rexit = "cancelled"
  /\ Len(pushed) = 2
  /\ Len(processed) = 2

\* C20: once the reader task has ended, for whatever reason, the writer pops
\* and brings through SendResponse every request still queued and then runs
\* Shutdown; it does not stay in Pop on the empty queue.
C20_ReaderGoneShutsDown ==
  (rpc = "done") ~>
    (/\ wpc = "done"
     /\ queue = <<>>
     /\ cur = 0
     /\ Len(processed) = Len(pushed)
     /\ ~socket_open)

C20_Witness ==
  /\ rpc = "done"
  /\ rexit = "graceful"
  /\ ~wcancel
  /\ wpc = "done"
  /\ Len(processed) = 2
  /\ \E i \in Ids : reqs[i].handler = "crashed"

\* Nothing that ends the reader has happened: no RecvSome has returned 0 or
\* thrown, no final request was accepted, Parse() has not failed, no Push has
\* failed and stop() was not called.
NoReaderExitEvent ==
  /\ rexit = "none"
  /\ ~FinalAccepted
  /\ ~flags.parse_failed
  /\ \A i \in Ids : ~reqs[i].dropped
  /\ ~flags.stop_called

\* C21: when ListenForRequests is over, one of its causes has happened: a
\* 0-byte RecvSome, an error thrown while receiving, a cancellation, or the
\* loop ended after a final request, a failed Parse() or a failed Push; and as
\* long as none of them has happened and stop() was not called, however many
\* requests were answered, the reader task is alive and accepting, no task is
\* cancelled, the socket is open and the writer has not reached Shutdown.
C21_KeptAlive ==
  /\ [](rpc = "done" =>
          \/ rexit \in {"peer_closed", "io_error", "exception"}
          \/ rexit \in {"cancelled", "not_started"} /\ rcancel
          \/ /\ rexit = "graceful"
             /\ \/ FinalAccepted
                \/ flags.parse_failed
                \/ \E i \in Ids : reqs[i].dropped)
  /\ [](NoReaderExitEvent =>
          /\ rpc \notin {"guard", "done"}
          /\ is_accepting_requests
          /\ ~rcancel
          /\ ~wcancel
          /\ socket_open
          /\ wpc \notin {"sync_cancel", "shutdown", "done"})

C21_Witness ==
  /\ NoReaderExitEvent
  /\ rpc = "loop"
  /\ wpc = "pop"
  /\ Len(processed) = MaxRequests
  /\ \A i \in Ids : reqs[i].is_sent
  /\ socket_open

\* C22: is_response_chain_valid never goes back to true; a Get() that ends
\* with the handler cancelled or the wait interrupted leaves it false, a Get()
\* that ends with a result or a crash leaves it as it was; and with the chain
\* broken no send is in progress and every request that finishes SendResponse
\* is marked send-failed, not sent, with nothing written.
C22_ChainBreaksForGood ==
  /\ [][~is_response_chain_valid => ~is_response_chain_valid']_vars
  /\ [][(wpc = "get" /\ wpc' # wpc) =>
          IF reqs[cur].handler \in {"ok", "crashed"}
            THEN is_response_chain_valid' = is_response_chain_valid
            ELSE ~is_response_chain_valid']_vars
  /\ [](~is_response_chain_valid => wpc # "sending")
  /\ [][(~is_response_chain_valid /\ Len(processed') > Len(processed)) =>
          /\ reqs'[cur].send_failed
          /\ ~reqs'[cur].is_sent
          /\ reqs'[cur].wire = "none"]_vars

C22_Witness ==
  /\ ~wcancel
  /\ processed = <<1, 2>>
  /\ reqs[1].handler = "cancelled"
  /\ reqs[1].send_failed
  /\ reqs[2].handler = "ok"
  /\ reqs[2].joins = 1
  /\ reqs[2].send_failed
  /\ reqs[2].wire = "none"

\* C23: is_accepting_requests changes only from true to false and only in a
\* step of the reader inside the parser sink or Parse() handling, which leaves
\* everything the writer and Start() own as it was; is_response_chain_valid
\* changes only from true to false and only in a step of the writer inside
\* HandleQueueItem, which leaves everything the reader owns as it was.
C23_FlagsOwned ==
  /\ [][is_accepting_requests' # is_accepting_requests =>
          /\ is_accepting_requests
          /\ rpc \in {"parse", "push"}
          /\ writerVars' = writerVars
          /\ startVars' = startVars]_vars
  /\ [][is_response_chain_valid' # is_response_chain_valid =>
          /\ is_response_chain_valid
          /\ wpc \in {"handle", "get"}
          /\ readerVars' = readerVars
          /\ startVars' = startVars]_vars

C23_Witness ==
  /\ ~is_accepting_requests
  /\ ~is_response_chain_valid
  /\ rexit = "graceful"
  /\ ~wcancel
  /\ wpc = "done"

\* C24: the socket is closed only by the writer's Shutdown step and written
\* only by the writer's send, both leaving the reader's state alone; every
\* step of the reader out of RecvSome happens with the socket open and leaves
\* the writer's state alone; and whenever the writer is at Shutdown or the
\* socket is closed the reader task has ended.
C24_SocketOwners ==
  /\ []((wpc = "shutdown" \/ ~socket_open) => rpc = "done")
  /\ [][socket_open' # socket_open =>
          /\ wpc = "shutdown"
          /\ readerVars' = readerVars]_vars
  /\ [][(\E i \in Ids : reqs'[i].wire # reqs[i].wire) =>
          /\ wpc = "sending"
          /\ socket_open
          /\ readerVars' = readerVars]_vars
  /\ [][(rpc = "loop" /\ rpc' # rpc) =>
          /\ socket_open
          /\ socket_open'
          /\ writerVars' = writerVars]_vars

C24_Witness ==
  /\ ~socket_open
  /\ rexit = "cancelled"
  /\ buf = <<>>
  /\ \E i \in Ids : reqs[i].wire = "full"
  /\ \E i \in Ids : reqs[i].wire = "none" /\ reqs[i].send_failed

\* A Push has returned false.
PushFailed == \E i \in Ids : reqs[i].dropped

C26_AccountedOnce ==
  /\ [][Len(processed') # Len(processed) =>
          /\ wpc \in {"send", "sending"}
          /\ cur # 0
          /\ processed' = Append(processed, cur)
          /\ reqs[cur].joins = 1
          /\ stats'.active_request_count = stats.active_request_count - 1
          /\ stats'.requests_processed_count = stats.requests_processed_count + 1
          /\ reqs'[cur].sends = reqs[cur].sends + 1]_vars
  /\ [][(\/ stats'.requests_processed_count # stats.requests_processed_count
         \/ stats'.active_request_count < stats.active_request_count
         \/ \E i \in Ids : reqs'[i].sends # reqs[i].sends) =>
          Len(processed') = Len(processed) + 1]_vars
  /\ [](\A i \in Ids :
          reqs[i].sends = (IF i \in Processed THEN 1 ELSE 0))
  /\ [](\A j, k \in 1..Len(processed) : processed[j] = processed[k] => j = k)

C26_Witness ==
  /\ Len(processed) = 2
  /\ stats.requests_processed_count = 2
  /\ stats.active_request_count = 0
  /\ reqs[1].wire = "partial"
  /\ ~reqs[1].send_failed
  /\ ~reqs[1].is_sent
  /\ reqs[2].handler = "crashed"
  /\ reqs[2].is_sent

\* C27 as stated: an I/O system error of the reader's receive is logged at
\* warning level for connection_reset and for broken_pipe, at error level for
\* any other code.
C27_ResetOrPipeIsWarning ==
  rexit = "io_error" =>
    rlog.level = (IF rlog.code \in {"connection_reset", "broken_pipe"}
                    THEN "warning" ELSE "error")

\* C27, amended: an I/O system error of the reader's receive is logged at
\* warning level for connection_reset and at error level for any other code,
\* broken_pipe included; the error is caught: the reader logs it once, accepts
\* and pushes nothing more and only runs its scope guard and ends.
C27_ResetIsWarning ==
  /\ [](rexit = "io_error" =>
          /\ rlog.code \in {"connection_reset", "broken_pipe", "other"}
          /\ rlog.level = (IF rlog.code = "connection_reset"
                             THEN "warning" ELSE "error")
          /\ rpc \in {"guard", "done"})
  /\ [][rexit = "io_error" =>
          /\ rexit' = rexit
          /\ rlog' = rlog
          /\ Len(reqs') = Len(reqs)
          /\ pushed' = pushed
          /\ buf' = buf
          /\ rpc' \in {rpc, "done"}]_vars

C27_Witness ==
  /\ rexit = "io_error"
  /\ rlog.code = "broken_pipe"
  /\ rlog.level = "error"
  /\ rpc = "done"
  /\ wcancel

\* C28: the writer's WaitForEvent on response_sender_assigned_event_ never
\* returns false (UASSERT(ok) never fails), and the cancellation of the writer
\* is never requested while the writer has not passed that wait and the event
\* is not yet sent.
C28_AssignedWaitSucceeds ==
  /\ ~flags.assert_ok_failed
  /\ ~(wcancel /\ wpc = "wait_assigned" /\ ~assigned_event)

\* C29: the scope guard never calls RequestCancel on a task handle that is not
\* valid: when it runs with response_sender_launched_event_ sent, Start() has
\* assigned response_sender_task_ (it is past CriticalAsync) and Shutdown has
\* not detached it; the handle is assigned before the event is sent and
\* detached only after the reader task has ended.
C29_GuardOnValidHandle ==
  /\ [][(rpc = "guard" /\ rpc' = "done") =>
          flags'.invalid_cancel = flags.invalid_cancel]_vars
  /\ [][(rpc = "guard" /\ rpc' = "done" /\ launched_event) =>
          /\ sender_task = "valid"
          /\ start_pc \in {"send_assigned", "returned"}
          /\ wpc \notin {"unspawned", "done"}]_vars
  /\ [](launched_event => sender_task # "invalid")
  /\ [](sender_task = "detached" => rpc = "done")

C29_Witness ==
  /\ rpc = "done"
  /\ rexit = "peer_closed"
  /\ wcancel
  /\ start_pc = "send_assigned"
  /\ sender_task = "valid"

\* C30: stop() never calls RequestCancel on a response_sender_task_ that is
\* not valid, whenever after the return of Start() it is called.
C30_StopOnValidHandle ==
  flags.stop_called => ~flags.invalid_cancel

\* C31: UASSERT(!response.IsSent()) never fails: SendResponse begins only for
\* a request that is not sent and that SendResponse has not run for before;
\* what the writer holds and what the queue holds has not been processed and
\* no item is held twice, in either ProcessResponses call of the lambda.
C31_SentOnce ==
  /\ [](~flags.assert_not_sent_failed)
  /\ [][(wpc = "send" /\ wpc' # wpc) =>
          /\ ~reqs[cur].is_sent
          /\ reqs[cur].sends = 0]_vars
  /\ [](cur # 0 => cur \notin Processed)
  /\ [](\A k \in 1..Len(queue) :
          /\ queue[k] \notin Processed
          /\ queue[k] # cur
          /\ \A j \in 1..Len(queue) : queue[j] = queue[k] => j = k)
  /\ [](\A i \in Ids : reqs[i].is_sent => reqs[i].sends = 1)

C31_Witness ==
  /\ pass = 2
  /\ wpc = "send"
  /\ processed = <<1>>
  /\ reqs[1].is_sent
  /\ cur = 2

\* Requests whose handler task was started and is not yet joined (awaited or
\* cancelled by the writer) nor destroyed with a failed Push.
Unjoined == {i \in Ids : reqs[i].joins = 0 /\ ~reqs[i].dropped}

\* Where a started handler task can be held: in a queued item, in the item
\* Push is waiting with, in the item the writer has popped.
Holders ==
  {queue[k] : k \in 1..Len(queue)} \cup ({pending} \ {0}) \cup ({cur} \ {0})

C33_SendErrorKeepsChain ==
  /\ [][(wpc = "sending" /\ wpc' # wpc) =>
          /\ is_response_chain_valid'
          /\ socket_open'
          /\ wpc' = "pop"]_vars
  /\ [](wpc = "sending" => is_response_chain_valid /\ socket_open)
  /\ [][(wpc = "send" /\ wpc' # wpc /\ is_response_chain_valid /\ socket_open) =>
          /\ wpc' = "sending"
          /\ reqs'[cur].sends = 0
          /\ ~reqs'[cur].send_failed]_vars
  /\ [](\A i \in Ids :
          (reqs[i].sends = 1 /\ reqs[i].handler \in {"ok", "crashed"}
             /\ is_response_chain_valid) => reqs[i].wire # "none")

C33_Witness ==
  /\ processed = <<1, 2>>
  /\ reqs[1].wire = "partial"
  /\ ~reqs[1].is_sent
  /\ reqs[2].handler = "ok"
  /\ reqs[2].is_sent
  /\ reqs[2].wire = "full"
  /\ is_response_chain_valid

====
